---------------------------- MODULE Spec2Model ----------------------------
(***************************************************************************)
(* ReadAble front end: the chunking / simplification / recombination       *)
(* pipeline (textChunker.js, apiService.js, textFormatter.js, App.jsx) and  *)
(* the speech / highlight synchronizer (AudioPlayer.jsx).                   *)
(*                                                                         *)
(* Strings are sequences of one-character strings.  Positions stored in    *)
(* records are 0-based, as in the JavaScript source.                       *)
(***************************************************************************)
EXTENDS Integers, Sequences, FiniteSets, TLC

(***************************************************************************)
(* Bounds of the model.                                                    *)
(***************************************************************************)
\* largest number of undelivered error events of cancelled utterances
MaxEvents == 1
\* largest number of utterances queued in the speech engine
MaxQueue == 2
\* largest number of pending setTimeout callbacks
MaxTimers == 1

(***************************************************************************)
(* Characters.                                                             *)
(***************************************************************************)
NL == "\n"
SP == " "
BS == "\\"
\* the characters matched by \s that occur in the modelled texts
Whitespace == {" ", "\n", "\t", "\r"}

Max2(a, b) == IF a >= b THEN a ELSE b
Min2(a, b) == IF a <= b THEN a ELSE b

(***************************************************************************)
(* String primitives of JavaScript used by the source.                     *)
(***************************************************************************)
\* s.substring(from, to) with 0-based from (inclusive) and to (exclusive)
substring(s, from, to) ==
    LET f == Max2(0, Min2(from, Len(s)))
        t == Max2(0, Min2(to, Len(s)))
    IN  IF f <= t THEN SubSeq(s, f + 1, t) ELSE SubSeq(s, t + 1, f)

RECURSIVE trimStart(_)
trimStart(s) ==
    IF s = <<>> THEN s
    ELSE IF Head(s) \in Whitespace THEN trimStart(Tail(s)) ELSE s

RECURSIVE trimEnd(_)
trimEnd(s) ==
    IF s = <<>> THEN s
    ELSE IF s[Len(s)] \in Whitespace THEN trimEnd(SubSeq(s, 1, Len(s) - 1)) ELSE s

\* String.prototype.trim
trim(s) == trimEnd(trimStart(s))

\* s.lastIndexOf(pat): 0-based index of the last occurrence, -1 if none
lastIndexOf(s, pat) ==
    LET hits == { i \in 0 .. (Len(s) - Len(pat)) : SubSeq(s, i + 1, i + Len(pat)) = pat }
    IN  IF Len(pat) > Len(s) \/ hits = {} THEN -1
        ELSE CHOOSE i \in hits : \A j \in hits : j <= i

\* s.replace(/pat/g, rep) for a literal pattern: leftmost, non-overlapping
RECURSIVE replaceAll(_, _, _)
replaceAll(s, pat, rep) ==
    IF Len(s) < Len(pat) THEN s
    ELSE IF SubSeq(s, 1, Len(pat)) = pat
         THEN rep \o replaceAll(SubSeq(s, Len(pat) + 1, Len(s)), pat, rep)
         ELSE <<Head(s)>> \o replaceAll(Tail(s), pat, rep)

\* length of the maximal prefix of s made of characters of set cs
RECURSIVE runLength(_, _)
runLength(s, cs) ==
    IF s = <<>> \/ Head(s) \notin cs THEN 0 ELSE 1 + runLength(Tail(s), cs)

\* s.replace(/[cs]{min,}/g, rep): every maximal run of at least min characters
\* of cs is replaced by rep
RECURSIVE replaceRuns(_, _, _, _)
replaceRuns(s, cs, min, rep) ==
    IF s = <<>> THEN s
    ELSE LET r == runLength(s, cs)
         IN  IF r >= min /\ r > 0
             THEN rep \o replaceRuns(SubSeq(s, r + 1, Len(s)), cs, min, rep)
             ELSE IF r > 0
                  THEN SubSeq(s, 1, r) \o replaceRuns(SubSeq(s, r + 1, Len(s)), cs, min, rep)
                  ELSE <<Head(s)>> \o replaceRuns(Tail(s), cs, min, rep)

\* s.split(/\s+/).filter(word => word.length > 0): the whitespace-delimited words
RECURSIVE splitWords(_)
splitWords(s) ==
    LET t == trimStart(s)
    IN  IF t = <<>> THEN <<>>
        ELSE LET w == CHOOSE k \in 1 .. Len(t) :
                          /\ \A j \in 1 .. k : t[j] \notin Whitespace
                          /\ (k = Len(t) \/ t[k + 1] \in Whitespace)
             IN  <<SubSeq(t, 1, w)>> \o splitWords(SubSeq(t, w + 1, Len(t)))

\* array.join(sep) for an array of strings
RECURSIVE join(_, _)
join(parts, sep) ==
    IF parts = <<>> THEN <<>>
    ELSE IF Len(parts) = 1 THEN parts[1]
    ELSE parts[1] \o sep \o join(Tail(parts), sep)


(***************************************************************************)
(* textFormatter.js                                                        *)
(***************************************************************************)
\* s.replace(/\n\s*\n\s*\n/g, '\n\n'): a whitespace run that starts at a line
\* break and holds at least three line breaks is cut down to two, up to its
\* last line break (the quantifiers are greedy)
RECURSIVE collapseLineBreaks(_)
collapseLineBreaks(s) ==
    IF s = <<>> THEN s
    ELSE IF Head(s) = NL
         THEN LET r == runLength(s, Whitespace)
                  breaks == { i \in 1 .. r : s[i] = NL }
                  last == CHOOSE i \in breaks : \A j \in breaks : j <= i
              IN  IF Cardinality(breaks) >= 3
                  THEN <<NL, NL>> \o collapseLineBreaks(SubSeq(s, last + 1, Len(s)))
                  ELSE <<Head(s)>> \o collapseLineBreaks(Tail(s))
         ELSE <<Head(s)>> \o collapseLineBreaks(Tail(s))

\* the escape sequences both formatters decode, in the order of the source;
\* tab is the replacement of \t (four spaces for display, one for speech)
decodeEscapes(s, tab) ==
    LET s1 == replaceAll(s, <<BS, "n">>, <<NL>>)
        s2 == replaceAll(s1, <<BS, "t">>, tab)
        s3 == replaceAll(s2, <<BS, "r", BS, "n">>, <<NL>>)
        s4 == replaceAll(s3, <<BS, "r">>, <<NL>>)
        s5 == replaceAll(s4, <<BS, "'">>, <<"'">>)
        s6 == replaceAll(s5, <<BS, "\"">>, <<"\"">>)
        s7 == replaceAll(s6, <<BS, BS>>, <<BS>>)
    IN  replaceAll(s7, <<BS, "&">>, <<"&">>)

\* formatText(text); the empty sequence also stands for undefined / null
formatText(text) ==
    IF text = <<>> THEN <<>>
    ELSE trim(collapseLineBreaks(decodeEscapes(text, <<SP, SP, SP, SP>>)))

removeQuotes(text) ==
    IF text = <<>> THEN <<>>
    ELSE LET c0 == trim(text)
             c1 == IF Len(c0) > 1 /\ c0[1] = "\"" /\ c0[Len(c0)] = "\""
                   THEN SubSeq(c0, 2, Len(c0) - 1) ELSE c0
             c2 == IF Len(c1) > 1 /\ c1[1] = "'" /\ c1[Len(c1)] = "'"
                   THEN SubSeq(c1, 2, Len(c1) - 1) ELSE c1
         IN  trim(c2)

\* s.replace(/\.\s*\./g, '.')
RECURSIVE dropDoublePeriods(_)
dropDoublePeriods(s) ==
    IF s = <<>> THEN s
    ELSE IF Head(s) = "."
         THEN LET r == runLength(Tail(s), Whitespace)
              IN  IF Len(s) >= r + 2 /\ s[r + 2] = "."
                  THEN <<".">> \o dropDoublePeriods(SubSeq(s, r + 3, Len(s)))
                  ELSE <<".">> \o dropDoublePeriods(Tail(s))
         ELSE <<Head(s)>> \o dropDoublePeriods(Tail(s))

formatTextForSpeech(text) ==
    IF text = <<>> THEN <<>>
    ELSE LET s0 == decodeEscapes(removeQuotes(text), <<SP>>)
             s1 == replaceRuns(s0, {NL}, 2, <<".", SP>>)
             s2 == replaceAll(s1, <<NL>>, <<".", SP>>)
             s3 == replaceRuns(s2, {"."}, 2, <<".">>)
             s4 == dropDoublePeriods(s3)
             s5 == replaceRuns(s4, Whitespace, 2, <<SP>>)
         IN  trim(s5)

(***************************************************************************)
(* textChunker.js                                                          *)
(***************************************************************************)
countWords(text) ==
    IF text = <<>> \/ trim(text) = <<>> THEN 0 ELSE Len(splitWords(text))

findOptimalBreakPoint(text, start, end, preserveParagraphs) ==
    LET searchText == substring(text, start, end)
        len == Len(searchText)
        paragraphBreak == lastIndexOf(searchText, <<NL, NL>>)
        \* one round of the loop over the sentence endings
        round(best, ending) ==
            LET lastIndex == lastIndexOf(searchText, ending)
            IN  IF lastIndex > best /\ 10 * lastIndex > 7 * len
                THEN lastIndex + Len(ending) ELSE best
        bestBreak == round(round(round(-1, <<".", SP>>), <<"!", SP>>), <<"?", SP>>)
        lastSpace == lastIndexOf(searchText, <<SP>>)
    IN  IF preserveParagraphs /\ 10 * paragraphBreak > 7 * len
        THEN start + paragraphBreak + 2
        ELSE IF bestBreak > -1 THEN start + bestBreak
        ELSE IF 10 * lastSpace > 8 * len THEN start + lastSpace + 1
        ELSE end

\* chunkSize of the loop iteration at currentPosition: maxChunkSize or what
\* is left of the text, cut back to the break point when there is one
chunkSizeAt(text, currentPosition, o) ==
    LET remainingText == Len(text) - currentPosition
        size0 == Min2(o.maxChunkSize, remainingText)
        breakPoint == findOptimalBreakPoint(text, currentPosition,
                          currentPosition + size0, o.preserveParagraphs)
    IN  IF currentPosition + size0 < Len(text)
           /\ breakPoint > currentPosition + o.minChunkSize
        THEN breakPoint - currentPosition ELSE size0

\* nextPosition of the loop iteration at currentPosition
nextPosition(text, currentPosition, o) ==
    currentPosition + chunkSizeAt(text, currentPosition, o) - o.overlapSize

\* the value the iteration assigns to currentPosition;
\* nextCurrentPositionByOverlap is the faulty variant without Math.max
nextCurrentPositionByOverlap(text, currentPosition, o) ==
    nextPosition(text, currentPosition, o)
nextCurrentPosition(text, currentPosition, o) ==
    Max2(nextPosition(text, currentPosition, o), currentPosition + 1)

\* what chunkText yields when its loop never ends: no array of chunks
neverReturns ==
    << [ text |-> <<>>, chunkIndex |-> -1, startPosition |-> -1,
         endPosition |-> -1, wordCount |-> -1 ] >>

\* the while loop of chunkText, from currentPosition with the chunks so far;
\* the iteration is a function of currentPosition, so an iteration that does
\* not move currentPosition forward is repeated for ever
RECURSIVE chunkLoop(_, _, _, _)
chunkLoop(text, currentPosition, chunks, o) ==
    IF currentPosition >= Len(text) THEN chunks
    ELSE LET chunkSize == chunkSizeAt(text, currentPosition, o)
             piece == trim(substring(text, currentPosition, currentPosition + chunkSize))
             pushed == IF Len(piece) > 0
                       THEN Append(chunks, [ text |-> piece,
                                             chunkIndex |-> Len(chunks),
                                             startPosition |-> currentPosition,
                                             endPosition |-> currentPosition + chunkSize,
                                             wordCount |-> countWords(piece) ])
                       ELSE chunks
             next == nextCurrentPosition(text, currentPosition, o)
         IN  IF next <= currentPosition THEN neverReturns
             ELSE chunkLoop(text, next, pushed, o)

\* chunkText(text, options); totalChunks of every chunk is the length of the
\* returned array and is not stored; chunkTextUntrimmed is the faulty variant
\* whose single chunk is the text as given
chunkTextUntrimmed(text, o) ==
    IF Len(text) = 0 THEN <<>>
    ELSE IF Len(text) <= o.maxChunkSize
         THEN << [ text |-> text, chunkIndex |-> 0, startPosition |-> 0,
                   endPosition |-> Len(text), wordCount |-> countWords(text) ] >>
         ELSE chunkLoop(text, 0, <<>>, o)
chunkText(text, o) ==
    IF Len(text) = 0 THEN <<>>
    ELSE IF Len(text) <= o.maxChunkSize
         THEN << [ text |-> trim(text), chunkIndex |-> 0, startPosition |-> 0,
                   endPosition |-> Len(text), wordCount |-> countWords(text) ] >>
         ELSE chunkLoop(text, 0, <<>>, o)


\* the default options of chunkText, scaled down from 450000 / 100000 / 5000
\* characters so that documents of a dozen characters span several chunks
MAX_CHUNK_SIZE == 6
MIN_CHUNK_SIZE == 2
OVERLAP_SIZE == 1
DefaultOptions ==
    [ maxChunkSize |-> MAX_CHUNK_SIZE, minChunkSize |-> MIN_CHUNK_SIZE,
      overlapSize |-> OVERLAP_SIZE, preserveParagraphs |-> TRUE ]

\* a || b on strings: the empty string is falsy
OrElse(a, b) == IF a # <<>> THEN a ELSE b

\* Array.prototype.sort((a, b) => a.chunkIndex - b.chunkIndex): stable
RECURSIVE insertByChunkIndex(_, _)
insertByChunkIndex(sorted, c) ==
    IF sorted = <<>> THEN <<c>>
    ELSE IF sorted[Len(sorted)].chunkIndex <= c.chunkIndex THEN Append(sorted, c)
    ELSE Append(insertByChunkIndex(SubSeq(sorted, 1, Len(sorted) - 1), c), sorted[Len(sorted)])

RECURSIVE sortByChunkIndex(_)
sortByChunkIndex(cs) ==
    IF cs = <<>> THEN <<>>
    ELSE insertByChunkIndex(sortByChunkIndex(SubSeq(cs, 1, Len(cs) - 1)), cs[Len(cs)])

\* the array recombineChunks concatenates: sortedChunks, which is also the
\* state it leaves the caller's array in (sort works in place);
\* sortedChunksAsGiven is the faulty variant that concatenates without sorting
sortedChunksAsGiven(processedChunks) == processedChunks
sortedChunks(processedChunks) == sortByChunkIndex(processedChunks)

recombineChunks(processedChunks) ==
    IF Len(processedChunks) = 0
    THEN [ displayText |-> <<>>, speechText |-> <<>>, originalText |-> <<>> ]
    ELSE LET sc == sortedChunks(processedChunks)
             n == Len(sc)
             displayText ==
                 trim(join([ i \in 1 .. n |-> OrElse(sc[i].processedText, sc[i].text) ],
                           <<NL, NL>>))
             speechText ==
                 trim(join([ i \in 1 .. n |->
                               OrElse(sc[i].speechText,
                                      formatTextForSpeech(OrElse(sc[i].processedText, sc[i].text))) ],
                           <<SP>>))
             originalText ==
                 trim(join([ i \in 1 .. n |-> OrElse(sc[i].originalText, sc[i].text) ],
                           <<NL, NL>>))
         IN  [ displayText |-> formatText(displayText),
               speechText |-> formatTextForSpeech(speechText),
               originalText |-> formatText(originalText) ]

(***************************************************************************)
(* apiService.js and the remote summarize endpoint                         *)
(***************************************************************************)
\* what the remote model makes of a text: letters become capitals, so that a
\* simplified text can be told from its original and traced back to it
SimplifyChar(c) == IF c = "a" THEN "A" ELSE IF c = "b" THEN "B" ELSE c
SimplifyTextAsync(text) == [ i \in 1 .. Len(text) |-> SimplifyChar(text[i]) ]

\* String(n) for a natural number n
RECURSIVE decimal(_)
decimal(n) ==
    LET digit == << "0", "1", "2", "3", "4", "5", "6", "7", "8", "9" >>[(n % 10) + 1]
    IN  IF n < 10 THEN <<digit>> ELSE Append(decimal(n \div 10), digit)

\* the chunks of the request body: id and seq are made from the position in
\* the chunk array
requestChunks(chunks) ==
    [ i \in 1 .. Len(chunks) |->
        [ id |-> <<"c", "h", "u", "n", "k", "_">> \o decimal(i - 1),
          seq |-> i - 1,
          start |-> chunks[i].startPosition,
          end |-> IF chunks[i].endPosition # 0 THEN chunks[i].endPosition
                  ELSE Len(chunks[i].text),
          tokenEstimate |-> IF chunks[i].wordCount # 0
                            THEN (4 * chunks[i].wordCount + 2) \div 3
                            ELSE (Len(chunks[i].text) + 3) \div 4,
          text |-> chunks[i].text ] ]

\* SummarizeDocumentFunction.cs
IsNullOrWhiteSpace(s) == trim(s) = <<>>

\* the messages of ValidateRequest, in the order they are added
ValidateRequest(request) ==
    LET chunkErrors(i) ==
            (IF IsNullOrWhiteSpace(request.chunks[i].id) THEN << <<i - 1, "Id is required">> >> ELSE <<>>)
            \o (IF IsNullOrWhiteSpace(request.chunks[i].text)
                THEN << <<i - 1, "Text is required">> >> ELSE <<>>)
            \o (IF request.chunks[i].tokenEstimate <= 0
                THEN << <<i - 1, "TokenEstimate must be greater than 0">> >> ELSE <<>>)
        allChunkErrors[i \in 0 .. Len(request.chunks)] ==
            IF i = 0 THEN <<>> ELSE allChunkErrors[i - 1] \o chunkErrors(i)
    IN  (IF IsNullOrWhiteSpace(request.docId) THEN << <<-1, "DocId is required">> >> ELSE <<>>)
        \o (IF request.chunks = <<>> THEN << <<-1, "At least one chunk is required">> >>
            ELSE allChunkErrors[Len(request.chunks)])

\* the processed chunk of one request chunk; threw: SimplifyTextAsync threw
ProcessedChunk(chunk, threw) ==
    [ id |-> chunk.id,
      seq |-> chunk.seq,
      start |-> chunk.start,
      end |-> chunk.end,
      originalText |-> chunk.text,
      simplifiedText |-> IF threw THEN chunk.text ELSE SimplifyTextAsync(chunk.text),
      error |-> IF threw THEN "Simplification failed" ELSE "" ]

\* ProcessDocumentChunksAsync for the request chunks, SimplifyTextAsync
\* throwing for those at the positions in `throws`;
\* ProcessDocumentChunksAsyncUntilThrow is the faulty variant that gives up
\* at the first chunk whose simplification throws
ProcessDocumentChunksAsyncUntilThrow(chunks, throws) ==
    LET ok == { n \in 0 .. Len(chunks) : \A k \in 1 .. n : k \notin throws }
        upTo == CHOOSE n \in ok : \A m \in ok : m <= n
    IN  [ k \in 1 .. upTo |-> ProcessedChunk(chunks[k], FALSE) ]
ProcessDocumentChunksAsync(chunks, throws) ==
    [ k \in 1 .. Len(chunks) |-> ProcessedChunk(chunks[k], k \in throws) ]

\* Run for a POST whose body is `request`: the status and the JSON body
Run(request, throws) ==
    LET validationResults == ValidateRequest(request)
    IN  IF validationResults # <<>>
        THEN [ status |-> 400, error |-> "Invalid input", details |-> validationResults,
               chunks |-> <<>>, summary |-> [ totalChunks |-> 0 ] ]
        ELSE [ status |-> 200, error |-> "", details |-> <<>>,
               chunks |-> ProcessDocumentChunksAsync(request.chunks, throws),
               summary |-> [ totalChunks |-> Len(request.chunks) ] ]

\* the permutations of 1 .. n
Orders(n) ==
    { p \in [1 .. n -> 1 .. n] : \A i, j \in 1 .. n : p[i] = p[j] => i = j }

\* the ways a summarize call can turn out for n request chunks: the fetch
\* rejects, the status is not 2xx, the body is not JSON, the JSON lacks the
\* chunks array or the summary, or it is a response that lists the processed
\* chunks in some order, those of `failed` with their error field set
ApiOutcomes(n) ==
    [ kind : {"transport", "status", "badjson", "nochunks", "nosummary"},
      order : { [ i \in 1 .. n |-> i ] }, failed : {{}} ]
    \cup [ kind : {"ok"}, order : Orders(n), failed : SUBSET (0 .. n - 1) ]

\* the body of a 200 response of the endpoint
responseBody(chunks, out) ==
    LET req == requestChunks(chunks)
        processed == ProcessDocumentChunksAsync(req, { seq + 1 : seq \in out.failed })
    IN  [ chunks |-> [ k \in 1 .. Len(req) |-> processed[out.order[k]] ],
          summary |-> [ totalChunks |-> Len(req) ] ]

\* summarizeDocument: either throws (message) or returns the parsed body
summarizeDocument(chunks, out) ==
    IF out.kind = "transport"
    THEN [ threw |-> TRUE, message |-> "Failed to summarize document: fetch failed" ]
    ELSE IF out.kind = "status"
    THEN [ threw |-> TRUE, message |-> "Failed to summarize document: API request failed" ]
    ELSE IF out.kind = "badjson"
    THEN [ threw |-> TRUE, message |-> "Failed to summarize document: invalid JSON" ]
    ELSE [ threw |-> FALSE, message |-> "" ]

\* the chunks of the catch block of processDocumentChunks: every input chunk
\* with its own text as processedText, the error message and processingFailed;
\* fallbackChunksUnmarked is the faulty variant that neither keeps the text
\* nor marks the chunk
fallbackChunksUnmarked(chunks, message) ==
    [ k \in 1 .. Len(chunks) |->
        [ text |-> chunks[k].text,
          chunkIndex |-> chunks[k].chunkIndex,
          startPosition |-> chunks[k].startPosition,
          endPosition |-> chunks[k].endPosition,
          wordCount |-> chunks[k].wordCount,
          processedText |-> <<>>,
          originalText |-> <<>>,
          speechText |-> <<>>,
          error |-> message,
          processingFailed |-> FALSE ] ]
fallbackChunks(chunks, message) ==
    [ k \in 1 .. Len(chunks) |->
        [ text |-> chunks[k].text,
          chunkIndex |-> chunks[k].chunkIndex,
          startPosition |-> chunks[k].startPosition,
          endPosition |-> chunks[k].endPosition,
          wordCount |-> chunks[k].wordCount,
          processedText |-> chunks[k].text,
          originalText |-> <<>>,
          speechText |-> <<>>,
          error |-> message,
          processingFailed |-> TRUE ] ]

\* processDocumentChunks: the value its promise resolves with
processDocumentChunks(chunks, out) ==
    LET call == summarizeDocument(chunks, out)
        \* result.chunks.map / result.summary.totalChunks throw a TypeError
        \* when the body lacks them; the catch block handles it like a failed call
        caught == call.threw \/ out.kind \in {"nochunks", "nosummary"}
        message == IF call.threw THEN call.message
                   ELSE "Cannot read properties of undefined"
        result == responseBody(chunks, out)
        processedChunks ==
            [ k \in 1 .. Len(result.chunks) |->
                [ text |-> chunks[k].text,
                  chunkIndex |-> chunks[k].chunkIndex,
                  startPosition |-> chunks[k].startPosition,
                  endPosition |-> chunks[k].endPosition,
                  wordCount |-> chunks[k].wordCount,
                  processedText |-> formatText(result.chunks[k].simplifiedText),
                  originalText |-> formatText(result.chunks[k].originalText),
                  speechText |-> formatTextForSpeech(result.chunks[k].simplifiedText),
                  error |-> result.chunks[k].error,
                  processingFailed |-> result.chunks[k].error # "" ] ]
        failedChunks == SelectSeq(processedChunks, LAMBDA c : c.processingFailed)
    IN  IF caught
        THEN [ processedChunks |-> fallbackChunks(chunks, message),
               errors |-> << [ chunkIndex |-> 0, error |-> message ] >>,
               totalChunks |-> Len(chunks),
               successfulChunks |-> 0 ]
        ELSE [ processedChunks |-> processedChunks,
               errors |-> [ i \in 1 .. Len(failedChunks) |->
                              [ chunkIndex |-> i - 1, error |-> failedChunks[i].error ] ],
               totalChunks |-> result.summary.totalChunks,
               successfulChunks |->
                   Len(SelectSeq(processedChunks, LAMBDA c : ~c.processingFailed)) ]

\* the POST bodies sent once the fetch of summarizeDocument has settled: none,
\* the fetch is in no loop and neither catch block sends anything;
\* requestsAfterFailureRetried is the faulty variant that sends a failed
\* request once more
requestsAfterFailureRetried(chunks, out) ==
    IF out.kind = "ok" THEN <<>> ELSE << requestChunks(chunks) >>
requestsAfterSettled(chunks, out) == <<>>

\* checkAPIHealth / testConnection: true iff the OPTIONS request is answered
\* with an ok status
testConnection(health) == health = "ok"


(***************************************************************************)
(* State.  An optional value (null or an object) is a sequence of length   *)
(* 0 or 1.                                                                 *)
(***************************************************************************)
VARIABLES
    \* App.jsx
    currentPage,          \* "landing" or "results"
    uploadedFile,         \* optional file
    processedText,        \* optional result shown by the results page
    isProcessing,
    processingProgress,   \* stage of the progress display, "none" for null
    processingError,      \* message, "" for null
    uploadPc,             \* where the running handleFileUpload is suspended
    chunks,               \* the chunk array of the run
    apiOutcome,           \* optional: how the summarize call of the run turned out
    apiResult,            \* optional: what processDocumentChunks resolved with
    posted,               \* the bodies POSTed to the summarize endpoint by the run
    \* AudioPlayer.jsx (props, state and refs)
    textToSpeak,          \* speechText || text
    isPlaying,
    isPaused,
    playbackRate,
    voiceType,
    selectedVoice,
    currentWordIndex,     \* the player's own record of the word being spoken
    timers,               \* pending setTimeout callbacks, in scheduling order
    \* ResultsPage.jsx
    highlightedWord,      \* the index last passed to onWordHighlight
    \* window.speechSynthesis
    synthQueue,           \* utterances speaking (head) or queued
    synthPaused,
    errorEvents,          \* error events of cancelled utterances, not yet delivered
    \* the rate and voice of the utterance the last step passed to
    \* speechSynthesis.speak(), if it passed one
    spoken,
    \* whether the user has stopped playback (Stop, or a click on the progress
    \* bar) and has not asked for speech since (Play, or a click on a word)
    stoppedByUser,
    \* textChunker.js called on its own
    chunked,              \* optional: a call of chunkText, its arguments and result
    recombined,           \* optional: a call of recombineChunks, the array before
                          \* and after the call and the results of two calls
    \* the summarize endpoint called on its own
    served                \* optional: a POST, its body and its response

appVars == << currentPage, uploadedFile, processedText, isProcessing,
              processingProgress, processingError, uploadPc, chunks,
              apiOutcome, apiResult, posted >>

playerVars == << textToSpeak, isPlaying, isPaused, playbackRate, voiceType,
                 selectedVoice, currentWordIndex, timers,
                 highlightedWord, synthQueue, synthPaused, errorEvents, spoken,
                 stoppedByUser >>

libVars == << chunked, recombined, served >>

vars == << appVars, playerVars, libVars >>

(***************************************************************************)
(* Inputs of the upload pipeline.                                          *)
(***************************************************************************)
Str(s) == [ i \in 1 .. Len(s) |-> s[i] ]

\* extracted document texts: empty, blank, below and above the chunk size
DocTexts ==
    { <<>>,
      <<SP, NL>>,
      <<"a", SP, "b">>,
      <<SP, "a", "b", NL>>,
      <<"a", "b", SP, "b", "a", ".", SP, "a", "b">>,
      <<"a", "a", "a", "a", NL, NL, "b", "b", "b", "b">>,
      <<"a", "b", "a", "b", "a", "b", "a", "b">> }

\* a file: whether its type passes isFileTypeSupported, whether extraction
\* throws, and the text extraction returns
Files == [ supported : BOOLEAN, readable : BOOLEAN, text : DocTexts ]

\* outcomes of the OPTIONS request of checkAPIHealth
HealthOutcomes == {"ok", "status", "transport"}

AppInit ==
    /\ currentPage = "landing"
    /\ uploadedFile = <<>>
    /\ processedText = <<>>
    /\ isProcessing = FALSE
    /\ processingProgress = "none"
    /\ processingError = ""
    /\ uploadPc = "idle"
    /\ chunks = <<>>
    /\ apiOutcome = <<>>
    /\ apiResult = <<>>
    /\ posted = <<>>

\* the catch block of handleFileUpload without its finally block
failUploadWithoutFinally(message) ==
    /\ processingError' = message
    /\ uploadPc' = "idle"
    /\ UNCHANGED << currentPage, processedText, isProcessing, processingProgress >>

\* the catch and finally blocks of handleFileUpload
failUpload(message) ==
    /\ processingError' = message
    /\ isProcessing' = FALSE
    /\ processingProgress' = "none"
    /\ uploadPc' = "idle"
    /\ UNCHANGED << currentPage, processedText >>

\* handleFileUpload reached through a FileUpload that ignores `disabled`
handleFileUploadWhenDisabled(file) ==
    /\ currentPage = "landing"
    /\ uploadedFile' = <<file>>
    /\ chunks' = <<>>
    /\ apiOutcome' = <<>>
    /\ apiResult' = <<>>
    /\ posted' = <<>>
    /\ IF ~file.supported
       THEN failUpload("File type not supported")
       ELSE /\ isProcessing' = TRUE
            /\ processingError' = ""
            /\ processingProgress' = "connecting"
            /\ uploadPc' = "connecting"
            /\ UNCHANGED << currentPage, processedText >>
    /\ UNCHANGED << playerVars, libVars >>

\* handleFileUpload up to its first await; the landing page is shown while
\* currentPage is "landing", and its FileUpload hands a dropped or selected
\* file over only while it is not disabled (disabled = isProcessing)
handleFileUpload(file) ==
    /\ currentPage = "landing"
    /\ ~isProcessing
    /\ uploadedFile' = <<file>>
    /\ chunks' = <<>>
    /\ apiOutcome' = <<>>
    /\ apiResult' = <<>>
    /\ posted' = <<>>
    /\ IF ~file.supported
       THEN failUpload("File type not supported")
       ELSE /\ isProcessing' = TRUE
            /\ processingError' = ""
            /\ processingProgress' = "connecting"
            /\ uploadPc' = "connecting"
            /\ UNCHANGED << currentPage, processedText >>
    /\ UNCHANGED << playerVars, libVars >>

\* await testConnection() settles
connectionTested(health) ==
    /\ uploadPc = "connecting"
    /\ IF ~testConnection(health)
       THEN failUpload("Cannot connect to the ReadAble API")
       ELSE /\ processingProgress' = "extracting"
            /\ uploadPc' = "extracting"
            /\ UNCHANGED << currentPage, processedText, isProcessing, processingError >>
    /\ UNCHANGED << uploadedFile, chunks, apiOutcome, apiResult, posted >>
    /\ UNCHANGED << playerVars, libVars >>

\* await extractTextFromFile() settles; the text is checked and chunked and
\* the summarize request is sent
textExtracted ==
    /\ uploadPc = "extracting"
    /\ LET file == uploadedFile[1]
       IN  IF ~file.readable
           THEN failUpload("Failed to extract text") /\ UNCHANGED << chunks, posted >>
           ELSE IF trim(file.text) = <<>>
           THEN failUpload("No text could be extracted from the file.")
                /\ UNCHANGED << chunks, posted >>
           ELSE /\ chunks' = chunkText(file.text, DefaultOptions)
                /\ posted' = Append(posted, requestChunks(chunks'))
                /\ processingProgress' = "processing"
                /\ uploadPc' = "processing"
                /\ UNCHANGED << currentPage, processedText, isProcessing, processingError >>
    /\ UNCHANGED << uploadedFile, apiOutcome, apiResult >>
    /\ UNCHANGED << playerVars, libVars >>

\* await processDocumentChunks() settles; the chunks are recombined and the
\* results page is shown
chunksProcessed(out) ==
    /\ uploadPc = "processing"
    /\ LET result == processDocumentChunks(chunks, out)
           combinedText == recombineChunks(result.processedChunks)
       IN  /\ apiOutcome' = <<out>>
           /\ apiResult' = << [ result EXCEPT
                                  !.processedChunks = sortedChunks(result.processedChunks) ] >>
           /\ processedText' =
                 << [ original |-> combinedText.originalText,
                      simplified |-> combinedText.displayText,
                      speechText |-> combinedText.speechText,
                      processingStats |->
                          [ totalChunks |-> result.totalChunks,
                            successfulChunks |-> result.successfulChunks,
                            errors |-> result.errors,
                            wordCount |-> Len(splitWords(uploadedFile[1].text)) ] ] >>
    /\ currentPage' = "results"
    /\ isProcessing' = FALSE
    /\ processingProgress' = "none"
    /\ uploadPc' = "idle"
    /\ posted' = posted \o requestsAfterSettled(chunks, out)
    /\ UNCHANGED << uploadedFile, processingError, chunks >>
    /\ UNCHANGED << playerVars, libVars >>

handleBackToLanding ==
    /\ currentPage = "results"
    /\ currentPage' = "landing"
    /\ uploadedFile' = <<>>
    /\ processedText' = <<>>
    /\ processingError' = ""
    /\ UNCHANGED << isProcessing, processingProgress, uploadPc, chunks, apiOutcome,
                    apiResult, posted >>
    /\ UNCHANGED << playerVars, libVars >>

AppNext ==
    \/ \E file \in Files : handleFileUpload(file)
    \/ \E health \in HealthOutcomes : connectionTested(health)
    \/ textExtracted
    \/ \E out \in ApiOutcomes(Len(chunks)) : chunksProcessed(out)
    \/ handleBackToLanding



(***************************************************************************)
(* AudioPlayer.jsx                                                         *)
(*                                                                         *)
(* A handler called from the page runs in the closure of the latest        *)
(* render and sees the current state.  A setTimeout callback and the       *)
(* event handlers of an utterance run in the closure of the render that    *)
(* created them: the values of playbackRate, selectedVoice and isPaused    *)
(* they read are those of that render, carried here in the timer and       *)
(* utterance records.  currentTime, duration, the progress interval,       *)
(* startFromWordIndex and pausedWordIndex are written but never decide     *)
(* anything and are left out.                                              *)
(***************************************************************************)
\* the texts handed to the player
PlayerTexts ==
    { <<>>,
      <<SP, "a", "b", SP, NL, "c">> }

\* the offered playback rates, in hundredths (two of the six options)
Rates == {100, 150}
VoiceTypes == {"female", "male"}

\* updateVoiceSelection with both Microsoft voices installed
updateVoiceSelection(type) ==
    IF type = "male" THEN "Microsoft Mark" ELSE "Microsoft Libby"

words == splitWords(textToSpeak)

\* Stopped, Playing or Paused
PlaybackState(playing, paused) ==
    IF playing /\ paused THEN "Both"
    ELSE IF playing THEN "Playing"
    ELSE IF paused THEN "Paused" ELSE "Stopped"

\* An utterance object is a record: the handler that built it (origin), the
\* word offset its tracking starts at, the isPaused of the closure its
\* handlers run in, and whether speechRef.current is this object.  Its rate
\* and voice decide nothing once it is spoken: they are recorded in `spoken`
\* when the utterance is passed to speechSynthesis.speak().  playFromWord
\* sets the handlers of the current utterance to null and cancels the queue
\* in the same step, so every utterance the engine holds has its onend /
\* onerror / onboundary handlers set.
Utterance(origin, startWordOffset, paused) ==
    [ origin |-> origin, startWordOffset |-> startWordOffset,
      isPaused |-> paused, current |-> TRUE ]

\* the error event of a cancelled utterance: what its onerror handler reads
ErrorEvent(u, error) ==
    [ origin |-> u.origin, isPaused |-> u.isPaused, current |-> u.current,
      error |-> error ]

\* speechRef.current = utterance reassigns the handle: no other object is it
notCurrent(u) == [ u EXCEPT !.current = FALSE ]

\* the utterance objects speechRef.current refers to, among those the engine
\* still knows (none when the handle is null or its utterance is finished)
speechRef ==
    { synthQueue[i] : i \in { j \in 1 .. Len(synthQueue) : synthQueue[j].current } }

\* the text of an utterance: the whole text for handlePlay, the words from
\* the start word on, joined by single spaces, for playFromWord
utteranceText(u) ==
    IF u.origin = "handlePlay" THEN textToSpeak
    ELSE join(SubSeq(words, u.startWordOffset + 1, Len(words)), <<SP>>)

canCreateUtterance == Len(synthQueue) < MaxQueue

PlayerInit ==
    /\ textToSpeak \in PlayerTexts
    /\ isPlaying = FALSE
    /\ isPaused = FALSE
    /\ playbackRate = 100
    /\ voiceType = "female"
    /\ selectedVoice = updateVoiceSelection("female")
    /\ currentWordIndex = -1
    /\ timers = <<>>
    /\ highlightedWord = -1
    /\ synthQueue = <<>>
    /\ synthPaused = FALSE
    /\ errorEvents = {}
    /\ spoken = <<>>
    /\ stoppedByUser = FALSE

\* speechSynthesis.cancel(): the queue is emptied and every removed utterance
\* is sent an error event, 'interrupted' if it had begun to be spoken and
\* 'canceled' if not (only the head of the queue can have begun).  `cleared`
\* tells whether the handlers of the current utterance were set to null
\* before: an utterance without handlers ignores its event.
cancelOutcomes(cleared) ==
    LET heard == { i \in 1 .. Len(synthQueue) : ~(cleared /\ synthQueue[i].current) }
        rest == { ErrorEvent(synthQueue[i], "canceled") : i \in heard \ {1} }
    IN  IF 1 \in heard
        THEN { rest \cup { ErrorEvent(synthQueue[1], error) } :
                 error \in {"interrupted", "canceled"} }
        ELSE { rest }

\* stopWordTracking in a closure whose isPaused is `paused`
stopWordTracking(paused) ==
    IF ~paused THEN highlightedWord' = -1 ELSE UNCHANGED highlightedWord

\* startWordTracking's onboundary handler for a word event at charIndex;
\* absoluteWordIndexWithoutOffset is the faulty variant that forgets
\* startWordOffset
absoluteWordIndexWithoutOffset(u, charIndex) ==
    LET spokenText == utteranceText(u)
        textUpToCurrentWord == substring(spokenText, 0, charIndex)
        wordsBeforeCurrent == splitWords(trim(textUpToCurrentWord))
    IN  Len(wordsBeforeCurrent)
absoluteWordIndex(u, charIndex) ==
    LET spokenText == utteranceText(u)
        textUpToCurrentWord == substring(spokenText, 0, charIndex)
        wordsBeforeCurrent == splitWords(trim(textUpToCurrentWord))
        relativeWordIndex == Len(wordsBeforeCurrent)
    IN  u.startWordOffset + relativeWordIndex

\* the body of playFromWord(wordIndex) up to its setTimeout, run in a closure
\* with the given rate, voice and isPaused; `pending` is the timer queue the
\* new timer is appended to; playFromWordBodySpeakingAtOnce is the faulty
\* variant that speaks the new utterance in the step of the cancel, without
\* a timer
playFromWordBodySpeakingAtOnce(wordIndex, rate, voice, paused, pending) ==
    IF textToSpeak = <<>> \/ Len(words) = 0 \/ wordIndex >= Len(words) \/ wordIndex < 0
    THEN /\ timers' = pending
         /\ UNCHANGED << isPlaying, isPaused, highlightedWord, synthQueue, errorEvents >>
    ELSE /\ \E evs \in cancelOutcomes(TRUE) :
                /\ errorEvents' = { notCurrent(e) : e \in { e \in errorEvents : ~e.current } \cup evs }
                /\ Cardinality(errorEvents') <= MaxEvents
         /\ synthQueue' = << Utterance("playFromWord", wordIndex, paused) >>
         /\ highlightedWord' = wordIndex
         /\ isPlaying' = TRUE
         /\ isPaused' = FALSE
         /\ timers' = pending
playFromWordBody(wordIndex, rate, voice, paused, pending) ==
    IF textToSpeak = <<>> \/ Len(words) = 0 \/ wordIndex >= Len(words) \/ wordIndex < 0
    THEN /\ timers' = pending
         /\ UNCHANGED << isPlaying, isPaused, highlightedWord, synthQueue, errorEvents >>
    ELSE /\ \E evs \in cancelOutcomes(TRUE) :
                /\ errorEvents' = { e \in errorEvents : ~e.current } \cup evs
                /\ Cardinality(errorEvents') <= MaxEvents
         /\ synthQueue' = <<>>
         /\ stopWordTracking(paused)
         /\ isPlaying' = TRUE
         /\ isPaused' = FALSE
         /\ timers' = Append(pending, [ kind |-> "speak", delay |-> 100,
                                        wordIndex |-> wordIndex, rate |-> rate,
                                        voice |-> voice, isPaused |-> paused ])

\* a click on a word of the results page: playFromWord through the ref
playFromWord(wordIndex) ==
    /\ Len(timers) < MaxTimers
    /\ playFromWordBody(wordIndex, playbackRate, selectedVoice, isPaused, timers)
    /\ spoken' = <<>>
    /\ stoppedByUser' = (stoppedByUser /\ (wordIndex >= Len(words) \/ wordIndex < 0))
    /\ UNCHANGED << textToSpeak, playbackRate, voiceType, selectedVoice,
                    currentWordIndex, synthPaused >>
    /\ UNCHANGED << appVars, libVars >>

\* a pending timer may run when no timer scheduled before it has a delay
\* that is not longer
timerDue(k) ==
    /\ k \in 1 .. Len(timers)
    /\ \A j \in 1 .. (k - 1) : timers[j].delay > timers[k].delay

removeAt(q, k) == SubSeq(q, 1, k - 1) \o SubSeq(q, k + 1, Len(q))

\* the timer of handleSpeedChange / handleVoiceTypeChange runs playFromWord
\* of the render that scheduled it
restartTimerFired(k) ==
    /\ timerDue(k)
    /\ timers[k].kind = "restart"
    /\ playFromWordBody(timers[k].wordIndex, timers[k].rate, timers[k].voice,
                        timers[k].isPaused, removeAt(timers, k))
    /\ spoken' = <<>>
    /\ UNCHANGED << textToSpeak, playbackRate, voiceType, selectedVoice,
                    currentWordIndex, synthPaused >>
    /\ UNCHANGED stoppedByUser
    /\ UNCHANGED << appVars, libVars >>

\* the timer of playFromWord: report the start word, build the utterance of
\* the remaining words and speak it
speakTimerFired(k) ==
    /\ timerDue(k)
    /\ timers[k].kind = "speak"
    /\ canCreateUtterance
    /\ LET t == timers[k]
           utterance == Utterance("playFromWord", t.wordIndex, t.isPaused)
       IN  /\ highlightedWord' = t.wordIndex
           /\ synthQueue' = Append([ i \in 1 .. Len(synthQueue) |-> notCurrent(synthQueue[i]) ],
                                   utterance)
           /\ errorEvents' = { notCurrent(e) :
                                 e \in errorEvents }
           /\ spoken' = << [ rate |-> t.rate, voice |-> t.voice ] >>
    /\ isPlaying' = TRUE
    /\ isPaused' = FALSE
    /\ timers' = removeAt(timers, k)
    /\ UNCHANGED << textToSpeak, playbackRate, voiceType, selectedVoice,
                    currentWordIndex, synthPaused >>
    /\ UNCHANGED stoppedByUser
    /\ UNCHANGED << appVars, libVars >>

\* the play / pause button shows Play while isPlaying is false
handlePlay ==
    /\ ~isPlaying
    /\ IF isPaused
       THEN /\ synthPaused' = FALSE
            /\ isPaused' = FALSE
            /\ isPlaying' = TRUE
            /\ spoken' = <<>>
            /\ UNCHANGED << synthQueue, errorEvents >>
       ELSE /\ canCreateUtterance
            /\ spoken' = << [ rate |-> playbackRate, voice |-> selectedVoice ] >>
            /\ LET utterance == Utterance("handlePlay", 0, isPaused)
               IN  synthQueue' = Append([ i \in 1 .. Len(synthQueue) |-> notCurrent(synthQueue[i]) ],
                                        utterance)
            /\ errorEvents' = { notCurrent(e) :
                                  e \in errorEvents }
            /\ isPlaying' = TRUE
            /\ UNCHANGED << isPaused, synthPaused >>
    /\ stoppedByUser' = FALSE
    /\ UNCHANGED << textToSpeak, playbackRate, voiceType, selectedVoice,
                    currentWordIndex, timers, highlightedWord >>
    /\ UNCHANGED << appVars, libVars >>

\* handlePause that leaves isPlaying as it is
handlePauseStillPlaying ==
    /\ isPlaying
    /\ synthPaused' = TRUE
    /\ isPaused' = TRUE
    /\ spoken' = <<>>
    /\ UNCHANGED << textToSpeak, playbackRate, voiceType, selectedVoice,
                    currentWordIndex, timers, highlightedWord,
                    synthQueue, errorEvents, isPlaying >>
    /\ UNCHANGED stoppedByUser
    /\ UNCHANGED << appVars, libVars >>

\* the play / pause button shows Pause while isPlaying is true
handlePause ==
    /\ isPlaying
    /\ synthPaused' = TRUE
    /\ isPaused' = TRUE
    /\ isPlaying' = FALSE
    /\ spoken' = <<>>
    /\ UNCHANGED << textToSpeak, playbackRate, voiceType, selectedVoice,
                    currentWordIndex, timers, highlightedWord,
                    synthQueue, errorEvents >>
    /\ UNCHANGED stoppedByUser
    /\ UNCHANGED << appVars, libVars >>

\* the body of handleStop
stopBody ==
    /\ \E evs \in cancelOutcomes(FALSE) :
           /\ errorEvents' = errorEvents \cup evs
           /\ Cardinality(errorEvents') <= MaxEvents
    /\ synthQueue' = <<>>
    /\ isPlaying' = FALSE
    /\ isPaused' = FALSE
    /\ stopWordTracking(isPaused)
    /\ currentWordIndex' = -1
    /\ UNCHANGED << textToSpeak, playbackRate, voiceType, selectedVoice,
                    timers, synthPaused >>

handleStop ==
    /\ stopBody
    /\ spoken' = <<>>
    /\ stoppedByUser' = TRUE
    /\ UNCHANGED << appVars, libVars >>

\* a click on the progress bar stops playback while isPlaying
handleSeek ==
    /\ isPlaying
    /\ stopBody
    /\ spoken' = <<>>
    /\ stoppedByUser' = TRUE
    /\ UNCHANGED << appVars, libVars >>

\* the restart timer of a rate or voice change, scheduled while Playing
scheduleRestart(delay) ==
    IF isPlaying /\ ~isPaused
    THEN /\ Len(timers) < MaxTimers
         /\ timers' = Append(timers, [ kind |-> "restart", delay |-> delay,
                                       wordIndex |-> Max2(0, currentWordIndex),
                                       rate |-> playbackRate, voice |-> selectedVoice,
                                       isPaused |-> isPaused ])
    ELSE UNCHANGED timers

handleSpeedChange(newRate) ==
    /\ newRate # playbackRate
    /\ playbackRate' = newRate
    /\ scheduleRestart(50)
    /\ spoken' = <<>>
    /\ UNCHANGED << textToSpeak, isPlaying, isPaused, voiceType, selectedVoice,
                    currentWordIndex, highlightedWord, synthQueue,
                    synthPaused, errorEvents >>
    /\ UNCHANGED stoppedByUser
    /\ UNCHANGED << appVars, libVars >>

handleVoiceTypeChange(newType) ==
    /\ newType # voiceType
    /\ voiceType' = newType
    /\ selectedVoice' = updateVoiceSelection(newType)
    /\ scheduleRestart(100)
    /\ spoken' = <<>>
    /\ UNCHANGED << textToSpeak, isPlaying, isPaused, playbackRate,
                    currentWordIndex, highlightedWord, synthQueue,
                    synthPaused, errorEvents >>
    /\ UNCHANGED stoppedByUser
    /\ UNCHANGED << appVars, libVars >>

\* onboundary that reports the index without comparing it with words.length
onboundaryUnchecked(charIndex) ==
    /\ synthQueue # <<>>
    /\ ~synthPaused
    /\ LET u == synthQueue[1]
           index == absoluteWordIndex(u, charIndex)
       IN  /\ Len(words) > 0
           /\ charIndex \in 0 .. Len(utteranceText(u))
           /\ currentWordIndex' = index
           /\ highlightedWord' = index
    /\ spoken' = <<>>
    /\ UNCHANGED << textToSpeak, isPlaying, isPaused, playbackRate, voiceType,
                    selectedVoice, timers, synthQueue, synthPaused,
                    errorEvents >>
    /\ UNCHANGED stoppedByUser
    /\ UNCHANGED << appVars, libVars >>

\* utterance.onboundary: a word event of the utterance being spoken
onboundary(charIndex) ==
    /\ synthQueue # <<>>
    /\ ~synthPaused
    /\ LET u == synthQueue[1]
           index == absoluteWordIndex(u, charIndex)
       IN  /\ Len(words) > 0
           /\ charIndex \in 0 .. Len(utteranceText(u))
           /\ IF index < Len(words)
              THEN /\ currentWordIndex' = index
                   /\ highlightedWord' = index
              ELSE UNCHANGED << currentWordIndex, highlightedWord >>
    /\ spoken' = <<>>
    /\ UNCHANGED << textToSpeak, isPlaying, isPaused, playbackRate, voiceType,
                    selectedVoice, timers, synthQueue, synthPaused,
                    errorEvents >>
    /\ UNCHANGED stoppedByUser
    /\ UNCHANGED << appVars, libVars >>

\* the state reset shared by onend and onerror, in the closure of utterance u
resetPlayback(u) ==
    /\ isPlaying' = FALSE
    /\ isPaused' = FALSE
    /\ stopWordTracking(u.isPaused)
    /\ currentWordIndex' = -1

\* utterance.onend: the utterance being spoken ends
onend ==
    /\ synthQueue # <<>>
    /\ ~synthPaused
    /\ synthQueue' = Tail(synthQueue)
    /\ resetPlayback(synthQueue[1])
    /\ spoken' = <<>>
    /\ UNCHANGED << textToSpeak, playbackRate, voiceType, selectedVoice,
                    timers, synthPaused, errorEvents >>
    /\ UNCHANGED stoppedByUser
    /\ UNCHANGED << appVars, libVars >>

\* utterance.onerror of utterance u for the error kind
onerrorBody(u, error) ==
    IF error = "interrupted"
    THEN UNCHANGED << isPlaying, isPaused, highlightedWord, currentWordIndex >>
    ELSE IF u.origin = "handlePlay" \/ u.current
    THEN resetPlayback(u)
    ELSE UNCHANGED << isPlaying, isPaused, highlightedWord, currentWordIndex >>

\* the engine fails on a queued utterance (synthesis-failed, audio-busy, ...)
onerror(k) ==
    /\ k \in 1 .. Len(synthQueue)
    /\ synthQueue' = removeAt(synthQueue, k)
    /\ onerrorBody(synthQueue[k], "synthesis-failed")
    /\ spoken' = <<>>
    /\ UNCHANGED << textToSpeak, playbackRate, voiceType, selectedVoice,
                    timers, synthPaused, errorEvents >>
    /\ UNCHANGED stoppedByUser
    /\ UNCHANGED << appVars, libVars >>

\* the error event of a cancelled utterance is delivered
oncancelled(e) ==
    /\ e \in errorEvents
    /\ errorEvents' = errorEvents \ {e}
    /\ onerrorBody(e, e.error)
    /\ spoken' = <<>>
    /\ UNCHANGED << textToSpeak, playbackRate, voiceType, selectedVoice,
                    timers, synthQueue, synthPaused >>
    /\ UNCHANGED stoppedByUser
    /\ UNCHANGED << appVars, libVars >>

PlayerNext ==
    \/ handlePlay
    \/ handlePause
    \/ handleSeek
    \/ handleStop
    \/ \E r \in Rates : handleSpeedChange(r)
    \/ \E t \in VoiceTypes : handleVoiceTypeChange(t)
    \/ \E i \in -1 .. Len(words) : playFromWord(i)
    \/ \E k \in 1 .. MaxTimers : restartTimerFired(k)
    \/ \E k \in 1 .. MaxTimers : speakTimerFired(k)
    \/ \E c \in 0 .. Len(textToSpeak) : onboundary(c)
    \/ onend
    \/ \E k \in 1 .. MaxQueue : onerror(k)
    \/ \E e \in errorEvents : oncancelled(e)

(***************************************************************************)
(* Specifications: the upload pipeline with the player unmounted, and the  *)
(* player on a results page whose text is fixed.                           *)
(***************************************************************************)
PlayerUnmounted ==
    /\ textToSpeak = <<>>
    /\ isPlaying = FALSE
    /\ isPaused = FALSE
    /\ playbackRate = 100
    /\ voiceType = "female"
    /\ selectedVoice = updateVoiceSelection("female")
    /\ currentWordIndex = -1
    /\ timers = <<>>
    /\ highlightedWord = -1
    /\ synthQueue = <<>>
    /\ synthPaused = FALSE
    /\ errorEvents = {}
    /\ spoken = <<>>
    /\ stoppedByUser = FALSE

\* no call of textChunker.js on its own
LibIdle ==
    /\ chunked = <<>>
    /\ recombined = <<>>
    /\ served = <<>>

\* the arguments a call on its own can be made with: one call is made, on any
\* of the inputs
WhileIdle(inputs) == IF LibIdle THEN inputs ELSE {}

\* the landing page: the app as constructed, no player mounted
InitApp == AppInit /\ PlayerUnmounted /\ LibIdle

SpecApp == InitApp /\ [][AppNext]_vars

\* the results page of a finished run, reduced to the text its player reads
InitPlayer == AppInit /\ PlayerInit /\ LibIdle

SpecPlayer == InitPlayer /\ [][PlayerNext]_vars

(***************************************************************************)
(* textChunker.js called on its own: one call of chunkText on any text     *)
(* with any options, or one call of recombineChunks on the processed       *)
(* chunks of a document in any order.                                      *)
(***************************************************************************)
\* texts of up to MaxTextLen characters and chunk sizes of up to MaxChunkSize
MaxTextLen == 6
MaxChunkSize == 11
MaxOverlap == 2

Strings(alphabet, n) == UNION { [1 .. k -> alphabet] : k \in 0 .. n }

\* every text of letters and spaces, the document texts, a long blank text,
\* and texts with a paragraph break, a sentence end or a space late enough in
\* the first eleven characters to be taken as break point
ChunkTexts ==
    Strings({"a", SP}, MaxTextLen)
    \cup DocTexts
    \cup { <<SP, NL, SP, NL, SP, NL, SP, NL, SP, NL, SP, NL>>,
           <<"a", "a", "a", "a", "a", "a", "a", "a", NL, NL, "b", "b", "b", "b">>,
           <<"a", "a", "a", "a", "a", "a", "a", "a", ".", SP, "b", "b", "b", "b">>,
           <<"a", "a", "a", "a", "a", "a", "a", "a", "a", SP, "b", "b", "b", "b">> }

ChunkOptions ==
    [ maxChunkSize : 1 .. MaxChunkSize, minChunkSize : {0, MIN_CHUNK_SIZE},
      overlapSize : 0 .. MaxOverlap, preserveParagraphs : BOOLEAN ]

InitChunker == AppInit /\ PlayerUnmounted /\ LibIdle

chunkTextCalled(text, o) ==
    /\ LibIdle
    /\ chunked' = << [ text |-> text, options |-> o, result |-> chunkText(text, o) ] >>
    /\ UNCHANGED << appVars, playerVars, recombined, served >>

\* recombineChunks called twice on the array `given`; the in-place sort of the
\* first call leaves the array as `left`, which is what the second call gets
recombineChunksCalled(given) ==
    /\ LibIdle
    /\ LET left == sortedChunks(given)
       IN  recombined' = << [ given |-> given,
                              left |-> left,
                              first |-> recombineChunks(given),
                              second |-> recombineChunks(left) ] >>
    /\ UNCHANGED << appVars, playerVars, chunked, served >>

\* the number of chunks of a document
chunkCount(text) == Len(chunkText(text, DefaultOptions))

\* the processed chunks of the documents, for every outcome of the summarize
\* call, in every order
ProcessedArrays ==
    UNION { { [ k \in 1 .. chunkCount(text) |->
                  processDocumentChunks(chunkText(text, DefaultOptions), out)
                      .processedChunks[p[k]] ] :
              out \in ApiOutcomes(chunkCount(text)), p \in Orders(chunkCount(text)) } :
            text \in DocTexts }

ChunkerNext ==
    \/ \E text \in WhileIdle(ChunkTexts), o \in ChunkOptions : chunkTextCalled(text, o)
    \/ \E given \in WhileIdle(ProcessedArrays) : recombineChunksCalled(given)

SpecChunker == InitChunker /\ [][ChunkerNext]_vars

(***************************************************************************)
(* The summarize endpoint called on its own: one POST with any body of up  *)
(* to MaxRequestChunks chunks, the simplification of any of them throwing. *)
(***************************************************************************)
MaxRequestChunks == 2

\* request chunks with and without an id, a text and a token estimate
RequestChunks ==
    [ id : { <<>>, <<"c", "0">> },
      seq : {0, 1},
      start : {0},
      end : {1},
      tokenEstimate : {0, 1},
      text : { <<SP>>, <<"a">>, <<"b">> } ]

Requests ==
    [ docId : { <<>>, <<"d">> },
      chunks : UNION { [1 .. n -> RequestChunks] : n \in 0 .. MaxRequestChunks } ]

InitBackend == AppInit /\ PlayerUnmounted /\ LibIdle

summarizeRequested(request, throws) ==
    /\ LibIdle
    /\ served' = << [ request |-> request, throws |-> throws,
                      response |-> Run(request, throws) ] >>
    /\ UNCHANGED << appVars, playerVars, chunked, recombined >>

BackendNext ==
    \E request \in WhileIdle(Requests), throws \in SUBSET (1 .. MaxRequestChunks) :
        summarizeRequested(request, throws)

SpecBackend == InitBackend /\ [][BackendNext]_vars

(***************************************************************************)
(* Properties of the upload pipeline (SpecApp)                             *)
(***************************************************************************)
\* the run of handleFileUpload has ended with a result
runDone == uploadPc = "idle" /\ apiOutcome # <<>> /\ processedText # <<>>

\* what the service makes of request chunk i (1-based) under outcome out
simplifiedContent(i, out) ==
    IF (i - 1) \in out.failed THEN chunks[i].text ELSE SimplifyTextAsync(chunks[i].text)

\* the display text that has the content of every chunk at the position of
\* its sequence index
textInSeqOrder(out) ==
    formatText(trim(join([ i \in 1 .. Len(chunks) |->
                             OrElse(formatText(simplifiedContent(i, out)), chunks[i].text) ],
                         <<NL, NL>>)))

\* C1: whatever the order in which a successful response lists its chunks,
\* the recombined display text has the simplified content of every chunk at
\* the position of its sequence index, chunk 0's content first.
C1_ReorderedResponsePlacedBySeq ==
    (runDone /\ apiOutcome[1].kind = "ok")
        => processedText[1].simplified = textInSeqOrder(apiOutcome[1])

\* an array in the order given by the permutation p
permuted(cs, p) == [ i \in 1 .. Len(cs) |-> cs[p[i]] ]

\* C2: recombineChunks returns the same displayText, speechText and
\* originalText for every permutation of the processed chunks of a run
\* (their chunkIndex values are distinct).
C2_RecombineOrderIndependent ==
    runDone =>
        LET pc == apiResult[1].processedChunks
        IN  \A p \in Orders(Len(pc)) :
                recombineChunks(permuted(pc, p)) = recombineChunks(pc)

\* a run with three processed chunks of different content, whose
\* permutations are recombined
C2_Witness ==
    /\ runDone
    /\ Len(apiResult[1].processedChunks) = 3
    /\ \A i, j \in 1 .. 3 :
          i # j => /\ apiResult[1].processedChunks[i].chunkIndex
                        # apiResult[1].processedChunks[j].chunkIndex
                   /\ apiResult[1].processedChunks[i].processedText
                        # apiResult[1].processedChunks[j].processedText

\* the summarize request failed in transport, by its status, or by a body
\* that is not the JSON of a response
requestFailed(out) == out.kind \in {"transport", "status", "badjson", "nochunks", "nosummary"}

extractableRunEnded ==
    /\ uploadPc = "idle"
    /\ uploadedFile # <<>>
    /\ uploadedFile[1].supported
    /\ uploadedFile[1].readable
    /\ trim(uploadedFile[1].text) # <<>>

\* C4: a simplification service that is unreachable or failing is never
\* fatal: every run for a file whose text can be extracted ends on the
\* results page with a result and without a processing error.
C4_ServiceFailureNeverFatal ==
    extractableRunEnded =>
        /\ currentPage = "results"
        /\ processedText # <<>>
        /\ processingError = ""


(***************************************************************************)
(* Properties of the audio player (SpecPlayer)                             *)
(***************************************************************************)
Stopped == ~isPlaying /\ ~isPaused
Playing == isPlaying /\ ~isPaused
Paused == isPaused /\ ~isPlaying

\* C5: after handleStop is handled from Playing or from Paused the player
\* is Stopped and the index reported to the caller is -1.
C5_StopClearsHighlight ==
    [][ ((Playing \/ Paused) /\ handleStop)
            => (Stopped' /\ highlightedWord' = -1) ]_vars

\* a resume, a seek-to-word or a stop by the user, or an engine error
resumeSeekStopOrError ==
    \/ handlePlay
    \/ handleStop
    \/ \E i \in -1 .. Len(words) : playFromWord(i)
    \/ \E k \in 1 .. MaxQueue : onerror(k)
    \/ \E e \in errorEvents : oncancelled(e)

\* C6: handling Pause while Playing reports no index, and while the player
\* is Paused the reported index stays what it was until the user resumes,
\* seeks or stops.
C6_PauseKeepsHighlight ==
    [][ /\ (Playing /\ handlePause) => (Paused' /\ highlightedWord' = highlightedWord)
        /\ (Paused /\ ~resumeSeekStopOrError)
               => (Paused' /\ highlightedWord' = highlightedWord) ]_vars

\* the number of whitespace-delimited words of text that start strictly
\* before the 0-based character offset c
wordsStartedBefore(text, c) ==
    Cardinality({ p \in 1 .. Min2(c, Len(text)) :
                    /\ text[p] \notin Whitespace
                    /\ (p = 1 \/ text[p - 1] \in Whitespace) })

\* C7: a word-boundary event at character offset c of an utterance started
\* at word offset s reports s plus the number of words of the spoken text
\* strictly before c (nothing when that is not an index of a word); a
\* boundary event at offset 0 of a seek-to-word(i) utterance reports i.
C7_BoundaryReportsAbsoluteIndex ==
    [][ \A c \in 0 .. Len(textToSpeak) :
            onboundary(c) =>
                LET u == synthQueue[1]
                    s == IF u.origin = "handlePlay" THEN 0 ELSE u.startWordOffset
                    index == s + wordsStartedBefore(utteranceText(u), c)
                IN  /\ index < Len(words)
                        => (highlightedWord' = index /\ currentWordIndex' = index)
                    /\ index >= Len(words) => highlightedWord' = highlightedWord
                    /\ (u.origin = "playFromWord" /\ c = 0)
                        => highlightedWord' = u.startWordOffset ]_vars

\* the utterance of a seek-to-word(0) is being spoken and a boundary event
\* of its second word has been reported
C7_Witness ==
    /\ synthQueue # <<>>
    /\ synthQueue[1].origin = "playFromWord"
    /\ synthQueue[1].startWordOffset = 0
    /\ highlightedWord = 1
    /\ currentWordIndex = 1

\* the restart timer scheduled by the step restarts from the given word
restartScheduledFrom(index) ==
    /\ Len(timers') = Len(timers) + 1
    /\ timers'[Len(timers')].kind = "restart"
    /\ timers'[Len(timers')].wordIndex = index

\* C8: a change of the rate or of the voice while Playing schedules a
\* seek-to-word restart from the word index reported last (0 if none was
\* reported yet).
C8_ChangeRestartsFromCurrentWord ==
    [][ (Playing /\ (\/ \E r \in Rates : handleSpeedChange(r)
                     \/ \E t \in VoiceTypes : handleVoiceTypeChange(t)))
            => restartScheduledFrom(Max2(0, highlightedWord)) ]_vars

\* C9: every utterance passed to speechSynthesis.speak() carries the rate
\* and the voice selected at the time it is spoken.
C9_SpokenWithSelectedRateAndVoice ==
    spoken # <<>> =>
        /\ spoken[1].rate = playbackRate
        /\ spoken[1].voice = selectedVoice

\* C10: an 'interrupted' error event changes neither the playback state nor
\* the highlighted word; any other error event of the current utterance
\* leaves the player Stopped with index -1 reported.
C10_ErrorHandling ==
    [][ /\ \A e \in errorEvents :
              (e.error = "interrupted" /\ oncancelled(e))
                  => UNCHANGED << isPlaying, isPaused, highlightedWord >>
        /\ \A e \in errorEvents :
              (e.error # "interrupted" /\ e.current /\ oncancelled(e))
                  => (Stopped' /\ highlightedWord' = -1)
        /\ \A k \in 1 .. Len(synthQueue) :
              (synthQueue[k].current /\ onerror(k))
                  => (Stopped' /\ highlightedWord' = -1) ]_vars


(***************************************************************************)
(* Properties of textChunker.js (SpecChunker)                              *)
(***************************************************************************)
\* the result of the chunkText call of this state
chunkResult == chunked[1].result

\* C11: for every text and every maxChunkSize >= 1, every chunk chunkText
\* returns has a text of at most maxChunkSize characters and the text is
\* not empty after trimming.
C11_ChunksWithinMaxAndNonEmpty ==
    chunked # <<>> =>
        \A i \in 1 .. Len(chunkResult) :
            /\ Len(chunkResult[i].text) <= chunked[1].options.maxChunkSize
            /\ trim(chunkResult[i].text) # <<>>


\* the text of the chunkText call fits into one chunk
fitsOneChunk == Len(chunked[1].text) <= chunked[1].options.maxChunkSize

\* C12 as stated: for every text of at most maxChunkSize characters chunkText
\* returns exactly one chunk, whose text is the trimmed text.
C12_AsStated ==
    (chunked # <<>> /\ fitsOneChunk) =>
        /\ Len(chunkResult) = 1
        /\ chunkResult[1].text = trim(chunked[1].text)

\* C12: for every text of at least one and at most maxChunkSize characters
\* chunkText returns exactly one chunk, whose text is the trimmed text; for
\* the empty text it returns no chunk.
C12_ShortTextIsOneTrimmedChunk ==
    (chunked # <<>> /\ fitsOneChunk) =>
        IF chunked[1].text = <<>>
        THEN chunkResult = <<>>
        ELSE /\ Len(chunkResult) = 1
             /\ chunkResult[1].text = trim(chunked[1].text)

\* a text with spaces at both ends came back as one chunk without them
C12_Witness ==
    /\ chunked # <<>>
    /\ chunked[1].text = <<SP, "a", SP, "a", SP>>
    /\ fitsOneChunk
    /\ Len(chunkResult) = 1
    /\ chunkResult[1].text = <<"a", SP, "a">>


\* C13: chunkText returns the empty sequence for the empty text and for a
\* text of whitespace only.
C13_DegenerateInputGivesNoChunk ==
    (chunked # <<>> /\ trim(chunked[1].text) = <<>>) => chunkResult = <<>>


\* chunk i of cs without the characters it shares with chunk i - 1, which
\* are those from its startPosition up to the endPosition of chunk i - 1
withoutShared(cs, i) ==
    LET shared == IF i = 1 THEN 0
                  ELSE Max2(0, cs[i - 1].endPosition - cs[i].startPosition)
    IN  SubSeq(cs[i].text, shared + 1, Len(cs[i].text))

\* C14: for every text longer than maxChunkSize, the chunks of chunkText in
\* chunkIndex order, each without the region it shares with its
\* predecessor, concatenate to the text.
C14_ChunksReconstructText ==
    (chunked # <<>> /\ ~fitsOneChunk) =>
        join([ i \in 1 .. Len(chunkResult) |-> withoutShared(chunkResult, i) ], <<>>)
            = chunked[1].text


\* C15: in every result of chunkText the start offsets and the end offsets
\* strictly increase with chunkIndex, and exactly one chunk of a result that
\* has chunks ends at the end of the text.
C15_OffsetsStrictlyIncrease ==
    chunked # <<>> =>
        /\ \A i, j \in 1 .. Len(chunkResult) :
              i < j => /\ chunkResult[i].startPosition < chunkResult[j].startPosition
                       /\ chunkResult[i].endPosition < chunkResult[j].endPosition
        /\ chunkResult # <<>> =>
              Cardinality({ i \in 1 .. Len(chunkResult) :
                              chunkResult[i].endPosition = Len(chunked[1].text) }) = 1


(***************************************************************************)
(* Properties of chunking and recombining in the pipeline (SpecApp)        *)
(***************************************************************************)
\* the characters of s that are not whitespace
withoutWhitespace(s) == SelectSeq(s, LAMBDA c : c \notin Whitespace)

\* every chunk of the run came back with its own text: the request failed
\* and the fallback was taken, or the response marks every chunk as failed
allChunksUnchanged ==
    \/ requestFailed(apiOutcome[1])
    \/ /\ apiOutcome[1].kind = "ok"
       /\ apiOutcome[1].failed = 0 .. Len(chunks) - 1

\* C16: chunk overlap does not duplicate output: when every chunk of a text
\* over the chunk size comes back unchanged, the original and the displayed
\* text of the result have as many non-whitespace characters as the uploaded
\* text, the characters of an overlap region being there once.
C16_OverlapNotDuplicated ==
    (runDone /\ Len(uploadedFile[1].text) > MAX_CHUNK_SIZE /\ allChunksUnchanged) =>
        /\ Len(withoutWhitespace(processedText[1].original))
              = Len(withoutWhitespace(uploadedFile[1].text))
        /\ Len(withoutWhitespace(processedText[1].simplified))
              = Len(withoutWhitespace(uploadedFile[1].text))


(***************************************************************************)
(* Properties of recombineChunks called on its own (SpecChunker)           *)
(***************************************************************************)
\* C17: recombineChunks is a pure function of its input: the array it is
\* given has the same elements in the same order after the call, and a
\* second call on it returns what the first returned.
C17_RecombineLeavesInputUnchanged ==
    recombined # <<>> =>
        /\ recombined[1].left = recombined[1].given
        /\ recombined[1].second = recombined[1].first


(***************************************************************************)
(* Properties of the summarize call in the pipeline (SpecApp)              *)
(***************************************************************************)
\* C18: in every result of processDocumentChunks, from the success path and
\* from the fallback path, errors has one entry per chunk marked
\* processingFailed, and successfulChunks plus the number of entries of
\* errors is totalChunks.
C18_ErrorCountsAddUp ==
    runDone =>
        LET r == apiResult[1]
        IN  /\ Len(r.errors)
                  = Len(SelectSeq(r.processedChunks, LAMBDA c : c.processingFailed))
            /\ r.successfulChunks + Len(r.errors) = r.totalChunks


\* C19: a call of processDocumentChunks sends exactly one POST to the
\* summarize endpoint, carrying all chunks of the run, whether the request
\* succeeds or fails; a failed request is not sent again.
C19_OnePostPerCall ==
    /\ Len(posted) <= 1
    /\ (uploadPc = "processing" \/ runDone) => posted = << requestChunks(chunks) >>

\* a run of several chunks whose request failed has ended, with the one
\* request that carried all of them
C19_Witness ==
    /\ runDone
    /\ requestFailed(apiOutcome[1])
    /\ Len(chunks) >= 2
    /\ Len(posted) = 1
    /\ Len(posted[1]) = Len(chunks)


(***************************************************************************)
(* Properties of the summarize endpoint (SpecBackend)                      *)
(***************************************************************************)
\* what the endpoint validates: a document id, at least one chunk, and for
\* every chunk an id, a text and a positive token estimate
passesValidation(request) ==
    /\ trim(request.docId) # <<>>
    /\ request.chunks # <<>>
    /\ \A k \in 1 .. Len(request.chunks) :
          /\ trim(request.chunks[k].id) # <<>>
          /\ trim(request.chunks[k].text) # <<>>
          /\ request.chunks[k].tokenEstimate > 0

\* C20: for every request that passes validation the response has exactly
\* one processed chunk per request chunk, in request order and with the same
\* id and seq; a chunk whose simplification throws has its original text as
\* simplifiedText and its error set, and every other chunk is simplified.
C20_OneProcessedChunkPerRequestChunk ==
    (served # <<>> /\ passesValidation(served[1].request)) =>
        LET req == served[1].request.chunks
            res == served[1].response
        IN  /\ res.status = 200
            /\ Len(res.chunks) = Len(req)
            /\ \A k \in 1 .. Len(req) :
                  /\ res.chunks[k].id = req[k].id
                  /\ res.chunks[k].seq = req[k].seq
                  /\ IF k \in served[1].throws
                     THEN /\ res.chunks[k].simplifiedText = req[k].text
                          /\ res.chunks[k].error # ""
                     ELSE /\ res.chunks[k].simplifiedText = SimplifyTextAsync(req[k].text)
                          /\ res.chunks[k].error = ""

\* a valid request of two chunks, seq 1 before seq 0, was served, the
\* simplification of the first one throwing: the first keeps its text, the
\* second is simplified
C20_Witness ==
    /\ served # <<>>
    /\ passesValidation(served[1].request)
    /\ Len(served[1].request.chunks) = 2
    /\ served[1].throws = {1}
    /\ served[1].request.chunks[1].seq = 1
    /\ served[1].request.chunks[1].text = <<"a">>
    /\ served[1].request.chunks[2].seq = 0
    /\ served[1].request.chunks[2].text = <<"b">>
    /\ served[1].response.chunks[1].seq = 1
    /\ served[1].response.chunks[1].simplifiedText = <<"a">>
    /\ served[1].response.chunks[1].error = "Simplification failed"
    /\ served[1].response.chunks[2].seq = 0
    /\ served[1].response.chunks[2].simplifiedText = <<"B">>


(***************************************************************************)
(* Properties of the audio player under interleaving (SpecPlayer)          *)
(***************************************************************************)
\* C21: under every interleaving of play, pause, stop, seek-to-word, rate
\* change, voice change and timer callbacks, at most one utterance is
\* speaking or queued in the speech engine, and it is the utterance that
\* speechRef refers to.
C21_OneUtteranceAndItIsCurrent ==
    /\ Len(synthQueue) <= 1
    /\ \A i \in 1 .. Len(synthQueue) : synthQueue[i] \in speechRef


\* C22: from handleStop until the next play or seek-to-word of the user the
\* player stays Stopped and no step hands an utterance to the speech engine,
\* whatever delay timers were pending when the stop was handled.
C22_StoppedUntilUserPlays ==
    stoppedByUser => (Stopped /\ spoken = <<>> /\ synthQueue = <<>>)


\* the pending timers of playFromWord
speakTimers(ts) == SelectSeq(ts, LAMBDA t : t.kind = "speak")

\* this step hands an utterance built by playFromWord to the speech engine
speaksSeekUtterance ==
    /\ spoken' # <<>>
    /\ synthQueue' # <<>>
    /\ synthQueue'[Len(synthQueue')].origin = "playFromWord"

\* C23: in seek-to-word the engine is cancelled strictly before the new
\* utterance is spoken: the step of the seek empties the engine's queue,
\* speaks nothing and leaves a delay timer; the new utterance is spoken only
\* by a later step that takes such a pending timer and cancels nothing.
C23_CancelBeforeSpeak ==
    [][ /\ \A i \in 0 .. Len(words) - 1 :
              playFromWord(i) =>
                  /\ synthQueue' = <<>>
                  /\ spoken' = <<>>
                  /\ Len(speakTimers(timers')) = Len(speakTimers(timers)) + 1
        /\ Len(speakTimers(timers')) > Len(speakTimers(timers)) =>
              (synthQueue' = <<>> /\ spoken' = <<>>)
        /\ speaksSeekUtterance =>
              /\ Len(speakTimers(timers)) > 0
              /\ Len(speakTimers(timers')) = Len(speakTimers(timers)) - 1
              /\ Len(synthQueue') = Len(synthQueue) + 1 ]_vars

\* the delay timer of a seek to the second word has run: the utterance of
\* the seek has just been spoken and is in the engine, alone
C23_Witness ==
    /\ spoken # <<>>
    /\ Len(synthQueue) = 1
    /\ synthQueue[1].origin = "playFromWord"
    /\ synthQueue[1].startWordOffset = 1
    /\ timers = <<>>


\* C24: when the current utterance ends, the player becomes Stopped and
\* index -1 is reported to the caller, for an utterance started by Play and
\* for one started by seek-to-word from any state, Paused included.
C24_EndResetsPlayback ==
    [][ (onend /\ synthQueue[1] \in speechRef)
            => (Stopped' /\ highlightedWord' = -1) ]_vars


\* C25: an error event other than 'interrupted' that is delivered for an
\* utterance that is no longer the current one changes neither the playback
\* state nor the highlighted word, whether Play or seek-to-word started the
\* utterance.
C25_StaleErrorChangesNothing ==
    [][ /\ \A e \in errorEvents :
             (oncancelled(e) /\ ~e.current /\ e.error # "interrupted")
                 => UNCHANGED << isPlaying, isPaused, highlightedWord >>
        /\ \A k \in 1 .. Len(synthQueue) :
             (onerror(k) /\ ~synthQueue[k].current)
                 => UNCHANGED << isPlaying, isPaused, highlightedWord >> ]_vars


\* C26: in every reachable state isPlaying and isPaused are not both true;
\* the player is Stopped, Playing or Paused.
C26_PlayingAndPausedExclusive == ~(isPlaying /\ isPaused)

\* the player is Paused in the middle of an utterance
C26_Witness ==
    /\ Paused /\ synthPaused /\ synthQueue # <<>>
    /\ highlightedWord >= 0


\* C27: every word index reported to the caller is -1 or an index of a word
\* of the text being read, and seek-to-word with an index outside that range,
\* or on an empty text, cancels nothing, changes no state and reports nothing.
C27_ReportedIndexInRange ==
    /\ [](highlightedWord \in -1 .. Len(words) - 1)
    /\ [][ \A i \in { -1, Len(words) } :
             playFromWord(i) =>
                 UNCHANGED << isPlaying, isPaused, highlightedWord,
                              currentWordIndex, timers, synthQueue,
                              synthPaused, errorEvents >> ]_vars

\* the last word of the text is reported while an utterance that started at
\* the first word is spoken: the next word event is past the last word
C27_Witness ==
    /\ Len(words) > 1
    /\ highlightedWord = Len(words) - 1
    /\ synthQueue # <<>> /\ ~synthPaused
    /\ synthQueue[1].startWordOffset = 0


(***************************************************************************)
(* Properties of the upload pipeline as a whole (SpecApp)                  *)
(***************************************************************************)
\* a run of handleFileUpload is between two of its awaits
runInProgress == uploadPc # "idle"

stageThrows ==
    \/ \E file \in Files : handleFileUpload(file) /\ ~file.supported
    \/ \E health \in HealthOutcomes : connectionTested(health) /\ ~testConnection(health)
    \/ /\ textExtracted
       /\ (~uploadedFile[1].readable \/ trim(uploadedFile[1].text) = <<>>)

C30_ChunkTextTerminates ==
    chunked # <<>> =>
        LET text == chunked[1].text
            o == chunked[1].options
        IN  /\ chunked[1].result # neverReturns
            /\ \A currentPosition \in 0 .. Len(text) - 1 :
                   nextCurrentPosition(text, currentPosition, o) > currentPosition

\* the loop has run on a text with an overlap of at least maxChunkSize, where
\* nextPosition is not beyond the current position, and has pushed chunks
C30_Witness ==
    /\ chunked # <<>>
    /\ chunked[1].options.overlapSize >= chunked[1].options.maxChunkSize
    /\ Len(chunked[1].text) > chunked[1].options.maxChunkSize
    /\ nextPosition(chunked[1].text, 0, chunked[1].options) <= 0
    /\ Len(chunked[1].result) >= 2

=============================================================================
